---- MODULE Spec2Model ----
(***************************************************************************)
(* Wordle helper (whwe.py, wordlehelperwentropy.py): the feedback          *)
(* simulator, the entropy scorer, the candidate filter, the guess selector *)
(* and the two drivers (simulate_game and the interactive loop of main).   *)
(*                                                                         *)
(* A character is a one-character string, a word or a feedback row is a    *)
(* sequence of characters.  Python's None is the string "None".            *)
(***************************************************************************)
EXTENDS Integers, Sequences, FiniteSets, TLC

VARIABLES mode, all_words, target, use_entropy, hard_mode, candidates,
          last_guess, last_feedback, turn, guess, feedback, pc, outcome,
          history, guesses, entropy_value

vars == <<mode, all_words, target, use_entropy, hard_mode, candidates,
          last_guess, last_feedback, turn, guess, feedback, pc, outcome,
          history, guesses, entropy_value>>

(***************************************************************************)
(* Bounds of the model.                                                    *)
(***************************************************************************)
\* letters of the alphabet used when a function is checked over all words
NumLetters == 2
\* length of the longest word list handed to a driver
MaxWords == 5

(***************************************************************************)
(* Program constants.                                                      *)
(***************************************************************************)
MAX_TURNS == 6
MAX_CANDIDATES_FOR_ENTROPY == 50
\* range(5), ['_'] * 5, len(line.strip()) == 5
WordLen == 5

None == "None"
GREEN == "G"
YELLOW == "Y"
GRAY == "_"

LowerAlphabet == <<"a", "b", "c", "d", "e", "f", "g", "h", "i", "j", "k", "l", "m",
                   "n", "o", "p", "q", "r", "s", "t", "u", "v", "w", "x", "y", "z">>
UpperAlphabet == <<"A", "B", "C", "D", "E", "F", "G", "H", "I", "J", "K", "L", "M",
                   "N", "O", "P", "Q", "R", "S", "T", "U", "V", "W", "X", "Y", "Z">>

Letters == {LowerAlphabet[i] : i \in 1..NumLetters}
\* every five-letter word over Letters
Words == [1..WordLen -> Letters]
\* every well-formed feedback row
Feedbacks == [1..WordLen -> {GREEN, YELLOW, GRAY}]

(***************************************************************************)
(* Python built-ins on sequences.                                          *)
(***************************************************************************)
Min(a, b) == IF a <= b THEN a ELSE b

\* x in seq
In(x, seq) == \E i \in 1..Len(seq) : seq[i] = x

\* seq.count(x)
Count(seq, x) == Cardinality({i \in 1..Len(seq) : seq[i] = x})

\* seq.index(x): the first position holding x
Index(seq, x) == CHOOSE i \in 1..Len(seq) : seq[i] = x /\ \A j \in 1..(i - 1) : seq[j] # x

\* set(seq)
SetOf(seq) == {seq[i] : i \in 1..Len(seq)}

(***************************************************************************)
(* get_feedback_pattern                                                    *)
(***************************************************************************)
\* first pass: feedback after the greens are marked
GreenFeedback(g, t) == [i \in 1..WordLen |-> IF g[i] = t[i] THEN GREEN ELSE GRAY]

\* first pass: target_chars after the greens are consumed
GreenTargetChars(g, t) == [i \in 1..WordLen |-> IF g[i] = t[i] THEN None ELSE t[i]]

\* second pass, positions i..WordLen, on the feedback fb and target_chars tc so far
RECURSIVE YellowPass(_, _, _, _)
YellowPass(g, fb, tc, i) ==
    IF i > WordLen THEN fb
    ELSE IF fb[i] = GRAY /\ In(g[i], tc)
         THEN YellowPass(g, [fb EXCEPT ![i] = YELLOW],
                         [tc EXCEPT ![Index(tc, g[i])] = None], i + 1)
         ELSE YellowPass(g, fb, tc, i + 1)

\* a variant that marks yellow by membership in the target, consuming nothing
get_feedback_pattern_membership(g, t) ==
    [i \in 1..WordLen |-> IF g[i] = t[i] THEN GREEN
                          ELSE IF In(g[i], t) THEN YELLOW ELSE GRAY]

get_feedback_pattern(g, t) ==
    YellowPass(g, GreenFeedback(g, t), GreenTargetChars(g, t), 1)

(***************************************************************************)
(* filter_candidates (whwe.py)                                             *)
(***************************************************************************)
\* the condition of the all(...) at position i of zip(guess, feedback)
PositionOk(word, g, fb, i) ==
    \/ fb[i] = GREEN /\ word[i] = g[i]
    \/ fb[i] = YELLOW /\ word[i] # g[i] /\ In(g[i], word)
    \/ fb[i] = GRAY /\ (IF Count(fb, g[i]) = 0 THEN ~In(g[i], word)
                        ELSE Count(word, g[i]) = Count(fb, g[i]))

\* whether filter_candidates appends word to filtered
Retains(word, g, fb) ==
    \A i \in 1..Min(Len(g), Len(fb)) : PositionOk(word, g, fb, i)

\* a variant that never checks the gray positions
filter_candidates_nogray(cands, g, fb) ==
    LET Keep(word) == \A i \in 1..Min(Len(g), Len(fb)) :
                          fb[i] = GRAY \/ PositionOk(word, g, fb, i)
    IN  SelectSeq(cands, Keep)

filter_candidates(cands, g, fb) ==
    LET Keep(word) == Retains(word, g, fb)
    IN  SelectSeq(cands, Keep)

(***************************************************************************)
(* filter_candidates (wordlehelperwentropy.py)                             *)
(***************************************************************************)
\* total_feedback_count for the letter at position i of the guess
total_feedback_count(g, fb, i) ==
    Cardinality({j \in 1..WordLen : g[j] = g[i] /\ fb[j] \in {GREEN, YELLOW}})

\* is_valid after both loops
is_valid(word, g, fb) ==
    /\ \A i \in 1..Min(Len(g), Len(fb)) : fb[i] = GREEN => word[i] = g[i]
    /\ \A i \in 1..Min(Len(g), Len(fb)) :
          /\ fb[i] = YELLOW => (In(g[i], word) /\ word[i] # g[i])
          /\ fb[i] = GRAY =>
                IF total_feedback_count(g, fb, i) = 0 THEN ~In(g[i], word)
                ELSE Count(word, g[i]) = total_feedback_count(g, fb, i)

filter_candidates_wentropy(cands, g, fb) ==
    LET Keep(word) == is_valid(word, g, fb)
    IN  SelectSeq(cands, Keep)

(***************************************************************************)
(* letter_freq and calculate_entropy                                       *)
(***************************************************************************)
\* letter_freq(words): each word counts each of its distinct letters once
letter_freq(words) ==
    [l \in UNION {SetOf(words[i]) : i \in 1..Len(words)} |->
        Cardinality({i \in 1..Len(words) : l \in SetOf(words[i])})]

\* a variant that tells the patterns apart by their first symbol only
pattern_counts_first(g, cands) ==
    [p \in {get_feedback_pattern(g, cands[i])[1] : i \in 1..Len(cands)} |->
        Cardinality({i \in 1..Len(cands) : get_feedback_pattern(g, cands[i])[1] = p})]

\* Counter(get_feedback_pattern(guess, target) for target in candidates)
pattern_counts(g, cands) ==
    [p \in {get_feedback_pattern(g, cands[i]) : i \in 1..Len(cands)} |->
        Cardinality({i \in 1..Len(cands) : get_feedback_pattern(g, cands[i]) = p})]

RECURSIVE Pow(_, _)
Pow(b, e) == IF e = 0 THEN 1 ELSE b * Pow(b, e - 1)

\* the product of count^count over the buckets S of the counter counts
RECURSIVE PowerProduct(_, _)
PowerProduct(counts, S) ==
    IF S = {} THEN 1
    ELSE LET p == CHOOSE q \in S : TRUE
         IN  Pow(counts[p], counts[p]) * PowerProduct(counts, S \ {p})

(***************************************************************************)
(* calculate_entropy returns the real number                               *)
(*     H = -sum((count/total) * log2(count/total))                         *)
(*       = log2(total) - log2(prod) / total,                               *)
(* where prod is the product of count^count over the buckets.  The model   *)
(* keeps H exactly, as the pair (total, prod); 0.0 for no candidates is    *)
(* the pair (0, 1).                                                        *)
(***************************************************************************)
calculate_entropy(g, cands) ==
    IF cands = <<>> THEN [total |-> 0, prod |-> 1]
    ELSE LET counts == pattern_counts(g, cands)
         IN  [total |-> Len(cands), prod |-> PowerProduct(counts, DOMAIN counts)]

\* H = 0: log2(total^total) = log2(prod)
EntropyIsZero(e) == e.prod = Pow(e.total, e.total)

\* H > 0
EntropyIsPositive(e) == e.prod < Pow(e.total, e.total)

(***************************************************************************)
(* The comparisons of pick_guess_entropy, for two entropies over the same  *)
(* sample of n words: H(x) - H(y) = log2(y / x) / n for the products x of  *)
(* H(x) and y of H(y).                                                     *)
(***************************************************************************)
\* H(x) - H(y) > 0.01, that is y / x > 2^(n/100).  As 1 + 0.0069 n <
\* 2^(n/100) < 1 + n/100 for 0 < n < 100, the test 100 y >= (100 + n) x
\* decides it whenever y / x is not strictly between the two bounds, which
\* no two products over a sample of at most 7 words are.
GapExceedsBonus(x, y, n) == n > 0 /\ 100 * y >= (100 + n) * x

\* entropy + bonus > best_entropy, for the score (e1, b1) of the guess at hand
\* and the best score (e2, b2) so far; b is whether 0.01 was added
ScoreGreater(e1, b1, e2, b2) ==
    IF b1 = b2 THEN e1.prod < e2.prod
    ELSE IF b1 THEN ~GapExceedsBonus(e2.prod, e1.prod, e1.total)
         ELSE GapExceedsBonus(e1.prod, e2.prod, e1.total)

(***************************************************************************)
(* enforce_hard_mode_filter, pick_guess_entropy, pick_guess                *)
(***************************************************************************)
enforce_hard_mode_filter(word, g, fb) ==
    \A i \in 1..Min(Len(g), Len(fb)) :
        /\ ~(fb[i] = GREEN /\ word[i] # g[i])
        /\ ~(fb[i] = YELLOW /\ (~In(g[i], word) \/ word[i] = g[i]))

\* random.sample(candidates, max_candidates) when there are more candidates
\* than that, candidates otherwise
Samples(cands, max_candidates) ==
    IF Len(cands) > max_candidates
    THEN {[i \in 1..max_candidates |-> cands[f[i]]] :
             f \in {h \in [1..max_candidates -> 1..Len(cands)] :
                       \A i, j \in 1..max_candidates : i # j => h[i] # h[j]}}
    ELSE {cands}

\* best_guess = None, best_entropy = -1.0, which every score exceeds
NoBest == [found |-> FALSE, guess |-> <<>>, entropy |-> [total |-> 0, prod |-> 1],
           bonus |-> FALSE]

\* the loop over guess_pool from position i on
RECURSIVE BestGuess(_, _, _, _, _)
BestGuess(pool, i, best, cands, sample_cands) ==
    IF i > Len(pool) THEN best
    ELSE LET entropy == calculate_entropy(pool[i], sample_cands)
             bonus == In(pool[i], cands)
             better == IF ~best.found THEN TRUE
                       ELSE ScoreGreater(entropy, bonus, best.entropy, best.bonus)
         IN  BestGuess(pool, i + 1,
                       IF better
                       THEN [found |-> TRUE, guess |-> pool[i], entropy |-> entropy,
                             bonus |-> bonus]
                       ELSE best,
                       cands, sample_cands)

\* a variant that never restricts the guess pool
GuessPool_unrestricted(cands, words, hard, lg, lf) ==
    IF words # <<>> THEN words ELSE cands

\* the guess pool of pick_guess_entropy
GuessPool(cands, words, hard, lg, lf) ==
    LET guess_pool == IF words # <<>> THEN words ELSE cands
        Admissible(word) == enforce_hard_mode_filter(word, lg, lf)
    IN  IF hard /\ lg # <<>> /\ lf # <<>> THEN SelectSeq(guess_pool, Admissible)
        ELSE guess_pool

\* The words a call can return.  The only statement that can raise is
\* random.choice of an empty list (IndexError): the set is empty exactly then.
pick_guess_entropy(cands, words, max_candidates, hard, lg, lf) ==
    IF Len(cands) = 1 THEN {cands[1]}
    ELSE LET guess_pool == GuessPool(cands, words, hard, lg, lf)
         IN  UNION {LET best == BestGuess(guess_pool, 1, NoBest, cands, sample_cands)
                    IN  IF best.found THEN {best.guess} ELSE SetOf(cands) :
                    sample_cands \in Samples(cands, max_candidates)}

\* The first word of the list in which each letter occurs: the Counter keeps
\* the letters in the order they were inserted, word by word; the letters of
\* one word are inserted in the iteration order of a set of strings, which
\* the hash seed of the process decides.
FirstWord(words, l) == CHOOSE i \in 1..Len(words) :
    l \in SetOf(words[i]) /\ \A j \in 1..(i - 1) : l \notin SetOf(words[j])

\* the sets set(letter for letter, _ in freqs.most_common(5)) can be
TopLetterSets(words) ==
    LET freqs == letter_freq(words)
        n == Min(5, Cardinality(DOMAIN freqs))
    IN  {S \in SUBSET DOMAIN freqs :
            /\ Cardinality(S) = n
            /\ \A a \in S, b \in (DOMAIN freqs) \ S :
                  \/ freqs[a] > freqs[b]
                  \/ freqs[a] = freqs[b] /\ FirstWord(words, a) <= FirstWord(words, b)}

\* The words a call can return; empty exactly when random.choice raises.
pick_guess(cands, words, entropy, hard, lg, lf) ==
    IF entropy
    THEN pick_guess_entropy(cands, words, MAX_CANDIDATES_FOR_ENTROPY, hard, lg, lf)
    ELSE UNION {LET HasAll(word) == top5_letters \subseteq SetOf(word)
                    filtered == SelectSeq(cands, HasAll)
                IN  SetOf(IF filtered # <<>> THEN filtered ELSE cands) :
                top5_letters \in TopLetterSets(cands)}

(***************************************************************************)
(* The drivers: simulate_game and the interactive loop of main.            *)
(***************************************************************************)
\* The word list of the runs (all_letters.txt is not part of the
\* repository): all_words is drawn from its first MaxWords words, the target
\* of a simulation from all of it.
W(a, b, c, d, e) == <<a, b, c, d, e>>
Dictionary == << W("s","a","s","s","y"), W("c","a","s","t","s"), W("g","r","a","t","e"),
                 W("c","r","a","t","e"), W("i","r","a","t","e"), W("t","r","a","c","e"),
                 W("s","l","a","t","e") >>

\* the non-empty sublists of the first MaxWords words, in their order
WordLists ==
    LET n == Min(MaxWords, Len(Dictionary))
        Sub(S) == LET InS(w) == \E i \in S : Dictionary[i] = w
                  IN  SelectSeq(SubSeq(Dictionary, 1, n), InS)
    IN  {Sub(S) : S \in (SUBSET (1..n)) \ {{}}}

\* str.upper() and str.lower(), character by character
Upper(s) == [i \in 1..Len(s) |->
                IF \E k \in 1..26 : LowerAlphabet[k] = s[i]
                THEN UpperAlphabet[CHOOSE k \in 1..26 : LowerAlphabet[k] = s[i]]
                ELSE s[i]]
Lower(s) == [i \in 1..Len(s) |->
                IF \E k \in 1..26 : UpperAlphabet[k] = s[i]
                THEN LowerAlphabet[CHOOSE k \in 1..26 : UpperAlphabet[k] = s[i]]
                ELSE s[i]]

\* str.strip(): the blanks at both ends removed
RECURSIVE LStrip(_)
LStrip(s) == IF s # <<>> /\ Head(s) = " " THEN LStrip(Tail(s)) ELSE s
RECURSIVE RStrip(_)
RStrip(s) == IF s # <<>> /\ s[Len(s)] = " " THEN RStrip(SubSeq(s, 1, Len(s) - 1)) ELSE s
Strip(s) == RStrip(LStrip(s))

\* a variant that accepts every entry
Invalid_never(fb) == FALSE

\* len(feedback) != 5 or any(c not in "GY_" for c in feedback)
Invalid(fb) == Len(fb) # 5 \/ \E i \in 1..Len(fb) : fb[i] \notin {"G", "Y", "_"}

AllGreen == [i \in 1..WordLen |-> GREEN]

\* The lines typed at the feedback prompt for the guess g: the row of g
\* against each word of the dictionary, typed as it is or in lower case
\* between blanks; rows that fit no word; and entries that are not rows.
Entries(g) ==
    LET rows == {get_feedback_pattern(g, Dictionary[i]) : i \in 1..Len(Dictionary)}
                \cup {[i \in 1..WordLen |-> YELLOW],
                      [i \in 1..WordLen |-> IF i = 1 THEN GREEN ELSE YELLOW],
                      [i \in 1..WordLen |-> IF i = 1 THEN GRAY ELSE GREEN]}
    IN  rows \cup {<<" ">> \o Lower(r) \o <<" ">> : r \in rows}
             \cup {<<>>, <<"G", "Y", "_">>, <<"G", "G", "G", "G", "G", "G">>,
                   <<"G", "X", "_", "_", "_">>, <<"G", " ", "Y", "_", "_">>}

Init ==
    /\ mode \in {"simulate", "main"}
    /\ all_words \in WordLists
    /\ target \in IF mode = "simulate" THEN SetOf(Dictionary) ELSE {<<>>}
    /\ use_entropy \in BOOLEAN
    /\ hard_mode \in BOOLEAN
    /\ candidates = all_words
    /\ last_guess = <<>>
    /\ last_feedback = <<>>
    /\ turn = 1
    /\ guess = <<>>
    /\ feedback = <<>>
    /\ pc = "pick"
    /\ outcome = "running"
    /\ history = {}
    /\ guesses = 0
    /\ entropy_value = calculate_entropy(<<>>, <<>>)

\* the end of the body of either loop: the next turn, or the loop is over
NextTurn(over) ==
    IF turn < MAX_TURNS
    THEN turn' = turn + 1 /\ pc' = "pick" /\ outcome' = outcome
    ELSE turn' = turn /\ pc' = "done" /\ outcome' = over

\* guess = pick_guess(candidates, all_words, use_entropy, hard_mode, last_guess,
\* last_feedback), which returns a word or raises IndexError
Pick ==
    LET returned == pick_guess(candidates, all_words, use_entropy, hard_mode,
                               last_guess, last_feedback)
    IN  IF returned = {}
        THEN /\ pc' = "done"
             /\ outcome' = "IndexError"
             /\ UNCHANGED <<guess, guesses>>
        ELSE /\ guess' \in returned
             /\ guesses' = guesses + 1
             /\ pc' = "feedback"
             /\ outcome' = outcome

\* simulate_game, a turn up to the guess
SimPick ==
    /\ mode = "simulate"
    /\ pc = "pick"
    /\ UNCHANGED entropy_value
    /\ Pick
    /\ UNCHANGED <<mode, all_words, target, use_entropy, hard_mode, candidates,
                   last_guess, last_feedback, turn, feedback, history>>

\* simulate_game, the rest of the turn
SimFeedback ==
    /\ mode = "simulate"
    /\ pc = "feedback"
    /\ UNCHANGED entropy_value
    /\ feedback' = get_feedback_pattern(guess, target)
    /\ IF feedback' = AllGreen
       THEN /\ pc' = "done"
            /\ outcome' = "solved"
            /\ UNCHANGED <<candidates, last_guess, last_feedback, turn, history>>
       ELSE /\ candidates' = filter_candidates(candidates, guess, feedback')
            /\ last_guess' = guess
            /\ last_feedback' = feedback'
            /\ history' = history \cup {<<guess, feedback'>>}
            /\ NextTurn("failed")
    /\ UNCHANGED <<mode, all_words, target, use_entropy, hard_mode, guess, guesses>>

\* main, a turn up to the prompt of the guess
MainPick ==
    /\ mode = "main"
    /\ pc = "pick"
    /\ UNCHANGED entropy_value
    /\ IF candidates = <<>>
       THEN /\ pc' = "done"
            /\ outcome' = "no_candidates"
            /\ UNCHANGED <<guess, guesses>>
       ELSE Pick
    /\ UNCHANGED <<mode, all_words, target, use_entropy, hard_mode, candidates,
                   last_guess, last_feedback, turn, feedback, history>>

\* main, the rest of the turn, for the line typed at the prompt
MainFeedback ==
    /\ mode = "main"
    /\ pc = "feedback"
    /\ UNCHANGED entropy_value
    /\ \E typed \in Entries(guess) :
          /\ feedback' = Upper(Strip(typed))
          /\ IF Invalid(feedback')
             THEN /\ NextTurn("out_of_turns")
                  /\ UNCHANGED <<candidates, last_guess, last_feedback, history>>
             ELSE IF feedback' = AllGreen
             THEN /\ pc' = "done"
                  /\ outcome' = "solved"
                  /\ UNCHANGED <<candidates, last_guess, last_feedback, turn, history>>
             ELSE /\ candidates' = filter_candidates(candidates, guess, feedback')
                  /\ last_guess' = guess
                  /\ last_feedback' = feedback'
                  /\ history' = history \cup {<<guess, feedback'>>}
                  /\ NextTurn("out_of_turns")
    /\ UNCHANGED <<mode, all_words, target, use_entropy, hard_mode, guess, guesses>>

Next == SimPick \/ SimFeedback \/ MainPick \/ MainFeedback

Spec == Init /\ [][Next]_vars

(***************************************************************************)
(* The feedback simulator and the filter over all words: a guess and a     *)
(* target are drawn, the pattern is computed, the one-word candidate list  *)
(* holding the target is filtered with it.                                 *)
(***************************************************************************)
InitFeedback ==
    /\ mode = "feedback"
    /\ guess \in Words
    /\ target \in Words
    /\ all_words = <<target>>
    /\ candidates = <<target>>
    /\ feedback = <<>>
    /\ use_entropy = TRUE
    /\ hard_mode = FALSE
    /\ last_guess = <<>>
    /\ last_feedback = <<>>
    /\ turn = 1
    /\ pc = "pattern"
    /\ outcome = "running"
    /\ history = {}
    /\ guesses = 0
    /\ entropy_value = calculate_entropy(<<>>, <<>>)

\* feedback = get_feedback_pattern(guess, target)
FnPattern ==
    /\ mode = "feedback"
    /\ pc = "pattern"
    /\ UNCHANGED entropy_value
    /\ feedback' = get_feedback_pattern(guess, target)
    /\ pc' = "filter"
    /\ UNCHANGED <<mode, all_words, target, use_entropy, hard_mode, candidates,
                   last_guess, last_feedback, turn, guess, outcome, history, guesses>>

\* candidates = filter_candidates(candidates, guess, feedback)
FnFilter ==
    /\ mode = "feedback"
    /\ pc = "filter"
    /\ UNCHANGED entropy_value
    /\ candidates' = filter_candidates(candidates, guess, feedback)
    /\ pc' = "done"
    /\ UNCHANGED <<mode, all_words, target, use_entropy, hard_mode,
                   last_guess, last_feedback, turn, guess, feedback, outcome,
                   history, guesses>>

NextFeedback == FnPattern \/ FnFilter

SpecFeedback == InitFeedback /\ [][NextFeedback]_vars

(***************************************************************************)
(* The filter over all words and all rows: a guess and a word are drawn    *)
(* (the word is kept in target), and the one-word candidate list is        *)
(* filtered with any well-formed row.                                      *)
(***************************************************************************)
InitFilter ==
    /\ mode = "filter"
    /\ guess \in Words
    /\ target \in Words
    /\ all_words = <<target>>
    /\ candidates = <<target>>
    /\ feedback = <<>>
    /\ use_entropy = TRUE
    /\ hard_mode = FALSE
    /\ last_guess = <<>>
    /\ last_feedback = <<>>
    /\ turn = 1
    /\ pc = "filter"
    /\ outcome = "running"
    /\ history = {}
    /\ guesses = 0
    /\ entropy_value = calculate_entropy(<<>>, <<>>)

\* candidates = filter_candidates(candidates, guess, feedback), for any row
FnFilterRow ==
    /\ mode = "filter"
    /\ pc = "filter"
    /\ UNCHANGED entropy_value
    /\ \E fb \in Feedbacks :
          /\ feedback' = fb
          /\ candidates' = filter_candidates(candidates, guess, fb)
    /\ pc' = "done"
    /\ UNCHANGED <<mode, all_words, target, use_entropy, hard_mode,
                   last_guess, last_feedback, turn, guess, outcome,
                   history, guesses>>

NextFilter == FnFilterRow

SpecFilter == InitFilter /\ [][NextFilter]_vars

(***************************************************************************)
(* The entropy scorer: a guess of the dictionary is scored against a list  *)
(* of candidates, the empty list included.                                 *)
(***************************************************************************)
InitEntropy ==
    /\ mode = "entropy"
    /\ guess \in SetOf(Dictionary)
    /\ candidates \in WordLists \cup {<<>>}
    /\ all_words = candidates
    /\ target = <<>>
    /\ feedback = <<>>
    /\ use_entropy = TRUE
    /\ hard_mode = FALSE
    /\ last_guess = <<>>
    /\ last_feedback = <<>>
    /\ turn = 1
    /\ pc = "score"
    /\ outcome = "running"
    /\ history = {}
    /\ guesses = 0
    /\ entropy_value = calculate_entropy(<<>>, <<>>)

\* entropy = calculate_entropy(guess, candidates)
FnEntropy ==
    /\ mode = "entropy"
    /\ pc = "score"
    /\ entropy_value' = calculate_entropy(guess, candidates)
    /\ pc' = "done"
    /\ UNCHANGED <<mode, all_words, target, use_entropy, hard_mode, candidates,
                   last_guess, last_feedback, turn, guess, feedback, outcome,
                   history, guesses>>

NextEntropy == FnEntropy

SpecEntropy == InitEntropy /\ [][NextEntropy]_vars

(***************************************************************************)
(* Properties.                                                             *)
(***************************************************************************)
\* k: the positions where the guess g has the letter c and the row fb is
\* GREEN or YELLOW
MarkedCount(g, fb, c) ==
    Cardinality({j \in 1..Len(g) : g[j] = c /\ fb[j] \in {GREEN, YELLOW}})

\* the retention rule, the GRAY case decided per letter
RuleRetains(word, g, fb) ==
    \A i \in 1..WordLen :
        /\ fb[i] = GREEN => word[i] = g[i]
        /\ fb[i] = YELLOW => (word[i] # g[i] /\ In(g[i], word))
        /\ fb[i] = GRAY => IF MarkedCount(g, fb, g[i]) = 0 THEN ~In(g[i], word)
                           ELSE Count(word, g[i]) = MarkedCount(g, fb, g[i])

\* the hard-mode rule, for the word w after the guess g and its row fb
HardModeAdmissible(w, g, fb) ==
    \A i \in 1..WordLen :
        /\ fb[i] = GREEN => w[i] = g[i]
        /\ fb[i] = YELLOW => (In(g[i], w) /\ w[i] # g[i])

\* a is b with some of its elements left out
RECURSIVE IsSubsequence(_, _)
IsSubsequence(a, b) ==
    IF a = <<>> THEN TRUE
    ELSE IF b = <<>> THEN FALSE
    ELSE IF Head(a) = Head(b) THEN IsSubsequence(Tail(a), Tail(b))
    ELSE IsSubsequence(a, Tail(b))

\* the guess gives one and the same pattern against every candidate
SamePattern(g, cands) ==
    \A i, j \in 1..Len(cands) :
        get_feedback_pattern(g, cands[i]) = get_feedback_pattern(g, cands[j])

\* C1: filtering the candidates with the pattern of the guess against the
\* target never removes the target.
C1_TargetKept ==
    (mode = "feedback" /\ pc = "done") => In(target, candidates)

\* C2: a word is retained by filter_candidates of whwe.py exactly when every
\* position obeys the rule, the GRAY positions by the per-letter count k.
C2_RetainedIffRule ==
    (mode = "filter" /\ pc = "done") =>
        (In(target, candidates) <=> RuleRetains(target, guess, feedback))

\* C3: for every letter c, the positions of c in the guess marked GREEN or
\* YELLOW are min(count of c in guess, count of c in target) many, and no
\* YELLOW position of c lies to the right of a GRAY position of c.
C3_MultisetConsumption ==
    (mode = "feedback" /\ pc # "pattern") =>
        \A c \in Letters :
            /\ MarkedCount(guess, feedback, c) = Min(Count(guess, c), Count(target, c))
            /\ \A i, j \in 1..WordLen :
                  (i < j /\ guess[i] = c /\ guess[j] = c /\ feedback[i] = GRAY)
                      => feedback[j] # YELLOW

\* a repeated letter of the guess with one occurrence YELLOW and a later one GRAY
C3_Witness ==
    /\ mode = "feedback"
    /\ pc # "pattern"
    /\ \E i, j \in 1..WordLen :
          /\ i < j
          /\ guess[i] = guess[j]
          /\ feedback[i] = YELLOW
          /\ feedback[j] = GRAY
          /\ Count(guess, guess[i]) > Count(target, guess[i])

\* every candidate obeys the rule for every pair accepted so far
C4_ConsistentWithHistory ==
    \A i \in 1..Len(candidates) : \A h \in history :
        RuleRetains(candidates[i], h[1], h[2])

\* C4: in a game, every word of candidates obeys the retention rule for every
\* (guess, feedback) pair accepted so far, and candidates is always a
\* subsequence of what it was before the step.
C4_CandidateInvariant ==
    /\ [](mode \in {"simulate", "main"} => C4_ConsistentWithHistory)
    /\ [][IsSubsequence(candidates', candidates)]_vars

\* two pairs accepted, and candidates are left, fewer than at the start
C4_Witness ==
    /\ mode \in {"simulate", "main"}
    /\ Cardinality(history) >= 2
    /\ candidates # <<>>
    /\ Len(candidates) < Len(all_words)

\* C5: in hard mode, a guess returned on a turn that follows an accepted
\* (last_guess, last_feedback) is admissible for that pair.
C5_HardModeGuessAdmissible ==
    (hard_mode /\ pc = "feedback" /\ last_guess # <<>>) =>
        HardModeAdmissible(guess, last_guess, last_feedback)

\* a hard-mode guess by entropy among several candidates, with a word of
\* all_words that the last pair excludes
C5_Witness ==
    /\ hard_mode
    /\ use_entropy
    /\ pc = "feedback"
    /\ last_guess # <<>>
    /\ Len(candidates) > 1
    /\ \E i \in 1..Len(all_words) :
          ~HardModeAdmissible(all_words[i], last_guess, last_feedback)

\* C6: a simulation whose target is not in all_words ends after exactly
\* MAX_TURNS guesses with the report of failure, and raises no error.
C6_SixGuessesThenFailure ==
    (mode = "simulate" /\ ~In(target, all_words)) =>
        /\ outcome # "IndexError"
        /\ pc = "done" => (outcome = "failed" /\ guesses = MAX_TURNS)

\* C7: no guess is produced from an empty candidate set.
C7_NoGuessFromEmpty ==
    (mode \in {"simulate", "main"} /\ pc = "feedback") => candidates # <<>>

\* C8: the entropy of a guess is 0 exactly when the guess gives the same
\* pattern against every candidate (no candidate and one candidate
\* included), and is positive when two candidates give different patterns.
C8_EntropyZeroIffSamePattern ==
    (mode = "entropy" /\ pc = "done") =>
        /\ EntropyIsZero(entropy_value) <=> SamePattern(guess, candidates)
        /\ ~SamePattern(guess, candidates) => EntropyIsPositive(entropy_value)

\* three candidates or more, two of them with one pattern and one with another
C8_Witness ==
    /\ mode = "entropy"
    /\ pc = "done"
    /\ Len(candidates) >= 3
    /\ ~SamePattern(guess, candidates)
    /\ \E i, j \in 1..Len(candidates) :
          i # j /\ get_feedback_pattern(guess, candidates[i])
                     = get_feedback_pattern(guess, candidates[j])

\* C9: a word is retained by filter_candidates exactly when the row is the
\* pattern of the guess against that word.
C9_RetainedIffPattern ==
    (mode = "filter" /\ pc = "done") =>
        (In(target, candidates) <=> get_feedback_pattern(guess, target) = feedback)

\* an entry that is not a row of five symbols among G, Y and _
Malformed(fb) == Len(fb) # WordLen \/ \E i \in 1..Len(fb) : fb[i] \notin {GREEN, YELLOW, GRAY}

\* the prompts of a game of main and the way it ends
C10_PromptsAndOutcome ==
    mode = "main" =>
        /\ guesses <= MAX_TURNS
        /\ pc = "done" => outcome \in {"solved", "no_candidates", "out_of_turns"}
        /\ outcome = "out_of_turns" => guesses = MAX_TURNS

\* C10: in main, a malformed entry leaves candidates, last_guess and
\* last_feedback as they are and uses up the turn; there are at most
\* MAX_TURNS prompts, and the game ends out of turns, after MAX_TURNS
\* prompts, unless it ended on GGGGG or on an empty candidate set.
C10_MalformedEntryFrame ==
    /\ []C10_PromptsAndOutcome
    /\ [][(mode = "main" /\ pc = "feedback" /\ pc' # "feedback" /\ Malformed(feedback'))
            => /\ candidates' = candidates
               /\ last_guess' = last_guess
               /\ last_feedback' = last_feedback
               /\ history' = history
               /\ \/ turn' = turn + 1 /\ pc' = "pick"
                  \/ turn = MAX_TURNS /\ pc' = "done" /\ outcome' = "out_of_turns"]_vars

\* a game of main that ran out of turns on a rejected entry, after an accepted one
C10_Witness ==
    /\ mode = "main"
    /\ outcome = "out_of_turns"
    /\ Malformed(feedback)
    /\ history # {}

\* filter_candidates of wordlehelperwentropy.py follows the per-letter rule
WentropyFollowsRule ==
    (mode = "filter" /\ pc = "done") =>
        (is_valid(target, guess, feedback) <=> RuleRetains(target, guess, feedback))

====
